---- MODULE Spec2Model ----
(***************************************************************************)
(* Model of rclrs/src/node/subscription.rs: SubscriptionHandle (the raw    *)
(* rcl subscription behind a Mutex, co-owning the node's Arc<Mutex<..>>),  *)
(* its Drop, Subscription::new, Subscription::take and                     *)
(* SubscriptionBase::execute, run by several threads against one node.     *)
(*                                                                         *)
(* pc[t] names the step thread t is about to take.  A MutexGuard bound by  *)
(* `let x = &mut *m.lock();` lives to the end of the enclosing function,   *)
(* so the step that returns from a function is the one that frees it.      *)
(***************************************************************************)
EXTENDS Integers, Sequences, FiniteSets, TLC

\* ---------------------------------------------------------------- bounds
MaxMsgs == 2

Threads == {"t1", "t2"}
Subs == {"A", "B"}

\* ------------------------------------------------------- values and codecs
Free == "free"
NoSub == "-"
NoTopic == <<>>

\* topic strings as byte sequences: "/t", "\0", "b\0t"
Topics == {<<47, 116>>, <<0>>, <<98, 0, 116>>}

\* CString::new(topic) fails iff the bytes contain an interior NUL
HasNul(tp) == \E i \in DOMAIN tp : tp[i] = 0

\* rcl return codes that matter here
RCL_RET_OK == "RCL_RET_OK"
RCL_RET_ERROR == "RCL_RET_ERROR"
RCL_RET_BAD_ALLOC == "RCL_RET_BAD_ALLOC"
RCL_RET_TOPIC_NAME_INVALID == "RCL_RET_TOPIC_NAME_INVALID"
RCL_RET_SUBSCRIPTION_INVALID == "RCL_RET_SUBSCRIPTION_INVALID"
RCL_RET_SUBSCRIPTION_TAKE_FAILED == "RCL_RET_SUBSCRIPTION_TAKE_FAILED"

InitReturns == {RCL_RET_OK, RCL_RET_BAD_ALLOC, RCL_RET_TOPIC_NAME_INVALID}
TakeFaults == {RCL_RET_ERROR, RCL_RET_BAD_ALLOC, RCL_RET_SUBSCRIPTION_INVALID}

\* RclReturnCode values: <<family, code>>
SubscriptionTakeFailed == <<"SubscriberError", "SubscriptionTakeFailed">>

Classify(r) ==
  CASE r = RCL_RET_SUBSCRIPTION_TAKE_FAILED -> SubscriptionTakeFailed
    [] r = RCL_RET_SUBSCRIPTION_INVALID -> <<"SubscriberError", "SubscriptionInvalid">>
    [] r = RCL_RET_BAD_ALLOC -> <<"RclError", "BadAlloc">>
    [] r = RCL_RET_TOPIC_NAME_INVALID -> <<"NodeError", "TopicNameInvalid">>
    [] OTHER -> <<"RclError", "Error">>

\* Result values
Ok(v) == [tag |-> "Ok", val |-> v]
Err(e) == [tag |-> "Err", val |-> e]
Panic == [tag |-> "Panic", val |-> <<>>]
NoResult == [tag |-> "None", val |-> <<>>]
Unit == <<>>

IsOk(r) == r.tag = "Ok"
IsErr(r) == r.tag = "Err"
IsErrOf(r, e) == r.tag = "Err" /\ r.val = e

\* rcl_ret_t.ok(): RCL_RET_OK is Ok(()), anything else the classified error
ToResult_ok(r) == IF r = RCL_RET_OK THEN Ok(Unit) ELSE Err(Classify(r))

\* wire and application representations of a message
DefaultRmw == <<"rmw", 0>>
Wire(n) == <<"rmw", n>>
from_rmw_message(w) == <<"msg", w[2]>>

\* ------------------------------------------------------------------ state
VARIABLES
  pc, op, cur, topic,            \* per thread: position, operation, subscription, topic
  rmw_message, ret, takeRes,     \* per thread: locals of take / execute
  result, nTake, nCb,            \* per thread: value returned, primitive calls made by this call
  res, pending, published,       \* per subscription: rcl resource state, middleware queue
  handleLock, handleRefs,        \* per subscription: SubscriptionHandle.handle mutex, Arc strong count
  nodeShare, subAlive, cbLock,   \* per subscription: node_handle clone held, Subscription object, callback mutex
  log, finiCount,                \* per subscription: what the callback appended, rcl_subscription_fini calls
  nodeLock, nodeRefs, nodeObj, nodeFinalized  \* the node: mutex, Arc strong count, Node object, rcl_node_t gone

tvars == <<pc, op, cur, topic, rmw_message, ret, takeRes, result, nTake, nCb>>
svars == <<res, pending, published, handleLock, handleRefs, nodeShare, subAlive,
           cbLock, log, finiCount>>
nvars == <<nodeLock, nodeRefs, nodeObj, nodeFinalized>>
vars == <<tvars, svars, nvars>>

Init ==
  /\ pc = [t \in Threads |-> "idle"]
  /\ op = [t \in Threads |-> "none"]
  /\ cur = [t \in Threads |-> NoSub]
  /\ topic = [t \in Threads |-> NoTopic]
  /\ rmw_message = [t \in Threads |-> DefaultRmw]
  /\ ret = [t \in Threads |-> RCL_RET_OK]
  /\ takeRes = [t \in Threads |-> NoResult]
  /\ result = [t \in Threads |-> NoResult]
  /\ nTake = [t \in Threads |-> 0]
  /\ nCb = [t \in Threads |-> 0]
  /\ res = [s \in Subs |-> "Uninitialized"]
  /\ pending = [s \in Subs |-> <<>>]
  /\ published = [s \in Subs |-> 0]
  /\ handleLock = [s \in Subs |-> Free]
  /\ handleRefs = [s \in Subs |-> 0]
  /\ nodeShare = [s \in Subs |-> FALSE]
  /\ subAlive = [s \in Subs |-> FALSE]
  /\ cbLock = [s \in Subs |-> Free]
  /\ log = [s \in Subs |-> <<>>]
  /\ finiCount = [s \in Subs |-> 0]
  /\ nodeLock = Free
  /\ nodeRefs = 1
  /\ nodeObj = TRUE
  /\ nodeFinalized = FALSE

\* positions inside each operation
NewPcs == {"n_lock", "n_opts", "n_init", "n_wrap", "n_ret"}
TakePcs == {"t_lock", "t_rcl", "t_ret"}
ExecPcs == {"e_match", "e_cblock", "e_cb"}
LockPcs == {"h_lock", "h_held", "h_drop"}
DropPcs == {"d_lock", "d_fini", "d_end"}

\* thread t has Subscription s borrowed (&self of a running take / execute)
BorrowsSub(t, s) == cur[t] = s /\ pc[t] \in TakePcs \cup ExecPcs
\* thread t has the Node borrowed (node: &Node of a running new)
BorrowsNode(t) == pc[t] \in NewPcs

Goto(t, p) == pc' = [pc EXCEPT ![t] = p]
Finish(t, r) == /\ pc' = [pc EXCEPT ![t] = "done"]
                /\ result' = [result EXCEPT ![t] = r]

\* ------------------------------------------------------ Subscription::take
\* variant: the resource is used without waiting for its mutex
HandleLockFree_Always(s) == TRUE

\* parking_lot Mutex: lock() proceeds only when nobody holds the mutex
HandleLockFree(s) == handleLock[s] = Free

\* entry of take() / execute(): rmw_message = RmwMsg::default()
TakeBegin(t, s, o) ==
  /\ pc[t] = "idle"
  /\ subAlive[s]
  /\ op' = [op EXCEPT ![t] = o]
  /\ cur' = [cur EXCEPT ![t] = s]
  /\ rmw_message' = [rmw_message EXCEPT ![t] = DefaultRmw]
  /\ Goto(t, "t_lock")
  /\ UNCHANGED <<topic, ret, takeRes, result, nTake, nCb, svars, nvars>>

\* let handle = &mut *self.handle.lock();
TakeLock(t) ==
  /\ pc[t] = "t_lock"
  /\ HandleLockFree(cur[t])
  /\ handleLock' = [handleLock EXCEPT ![cur[t]] = t]
  /\ Goto(t, "t_rcl")
  /\ UNCHANGED <<op, cur, topic, rmw_message, ret, takeRes, result, nTake, nCb,
                 res, pending, published, handleRefs, nodeShare, subAlive, cbLock,
                 log, finiCount, nvars>>

\* rcl_take on the resource: the head of the queue, "take failed" when the
\* queue is empty, or a middleware fault; an invalid resource is reported
rcl_take(t, s, r) ==
  /\ \/ r = RCL_RET_OK /\ res[s] = "Live" /\ pending[s] # <<>>
     \/ r = RCL_RET_SUBSCRIPTION_TAKE_FAILED /\ res[s] = "Live" /\ pending[s] = <<>>
     \/ r \in {RCL_RET_ERROR, RCL_RET_BAD_ALLOC} /\ res[s] = "Live"
     \/ r = RCL_RET_SUBSCRIPTION_INVALID /\ res[s] # "Live"
  /\ IF r = RCL_RET_OK
       THEN /\ rmw_message' = [rmw_message EXCEPT ![t] = Head(pending[s])]
            /\ pending' = [pending EXCEPT ![s] = Tail(pending[s])]
       ELSE UNCHANGED <<rmw_message, pending>>
  /\ ret' = [ret EXCEPT ![t] = r]

TakeRcl(t) ==
  /\ pc[t] = "t_rcl"
  /\ \E r \in {RCL_RET_OK, RCL_RET_SUBSCRIPTION_TAKE_FAILED} \cup TakeFaults :
       rcl_take(t, cur[t], r)
  /\ nTake' = [nTake EXCEPT ![t] = @ + 1]
  /\ Goto(t, "t_ret")
  /\ UNCHANGED <<op, cur, topic, takeRes, result, nCb, res, published, handleLock,
                 handleRefs, nodeShare, subAlive, cbLock, log, finiCount, nvars>>

\* variant: decodes a fresh default message, not the buffer rcl_take filled
TakeValue_Fresh(r, w) ==
  IF IsOk(ToResult_ok(r)) THEN Ok(from_rmw_message(DefaultRmw)) ELSE ToResult_ok(r)

\* ret.ok()?; Ok(T::from_rmw_message(rmw_message))
TakeValue(r, w) ==
  IF IsOk(ToResult_ok(r)) THEN Ok(from_rmw_message(w)) ELSE ToResult_ok(r)

\* variant: the guard outlives take() (it is leaked, or returned with the value)
TakeReturn_KeepGuard(t) ==
  /\ pc[t] = "t_ret"
  /\ takeRes' = [takeRes EXCEPT ![t] = TakeValue(ret[t], rmw_message[t])]
  /\ IF op[t] = "take"
       THEN Finish(t, TakeValue(ret[t], rmw_message[t]))
       ELSE Goto(t, "e_match") /\ UNCHANGED result
  /\ UNCHANGED <<op, cur, topic, rmw_message, ret, nTake, nCb, res, pending,
                 published, handleLock, handleRefs, nodeShare, subAlive, cbLock, log,
                 finiCount, nvars>>

\* take() returns: the guard `handle` goes out of scope
TakeReturn(t) ==
  /\ pc[t] = "t_ret"
  /\ takeRes' = [takeRes EXCEPT ![t] = TakeValue(ret[t], rmw_message[t])]
  /\ handleLock' = [handleLock EXCEPT ![cur[t]] = Free]
  /\ IF op[t] = "take"
       THEN Finish(t, TakeValue(ret[t], rmw_message[t]))
       ELSE Goto(t, "e_match") /\ UNCHANGED result
  /\ UNCHANGED <<op, cur, topic, rmw_message, ret, nTake, nCb, res, pending,
                 published, handleRefs, nodeShare, subAlive, cbLock, log, finiCount,
                 nvars>>

\* --------------------------------------------------- SubscriptionBase::execute
\* variant: no arm for SubscriptionTakeFailed, every error is returned
ExecOutcome_NoSpuriousArm(r) ==
  IF IsOk(r) THEN [call |-> TRUE, value |-> Ok(Unit)]
  ELSE [call |-> FALSE, value |-> r]

\* variant: every error of take() is treated like the spurious wakeup
ExecOutcome_SwallowAll(r) ==
  IF IsOk(r) THEN [call |-> TRUE, value |-> Ok(Unit)]
  ELSE [call |-> FALSE, value |-> Ok(Unit)]

\* the match on self.take(): "call" the callback, or return this value
ExecOutcome(r) ==
  IF IsOk(r) THEN [call |-> TRUE, value |-> Ok(Unit)]
  ELSE IF IsErrOf(r, SubscriptionTakeFailed) THEN [call |-> FALSE, value |-> Ok(Unit)]
  ELSE [call |-> FALSE, value |-> r]

ExecMatch(t) ==
  /\ pc[t] = "e_match"
  /\ IF ExecOutcome(takeRes[t]).call
       THEN Goto(t, "e_cblock") /\ UNCHANGED result
       ELSE Finish(t, ExecOutcome(takeRes[t]).value)
  /\ UNCHANGED <<op, cur, topic, rmw_message, ret, takeRes, nTake, nCb, svars, nvars>>

\* variant: the callback is called without waiting for its mutex
CallbackLockFree_Always(s) == TRUE

\* the callback's Mutex: lock() proceeds only when nobody holds it
CallbackLockFree(s) == cbLock[s] = Free

\* self.callback.lock()
ExecCbLock(t) ==
  /\ pc[t] = "e_cblock"
  /\ CallbackLockFree(cur[t])
  /\ cbLock' = [cbLock EXCEPT ![cur[t]] = t]
  /\ Goto(t, "e_cb")
  /\ UNCHANGED <<op, cur, topic, rmw_message, ret, takeRes, result, nTake, nCb,
                 res, pending, published, handleLock, handleRefs, nodeShare, subAlive,
                 log, finiCount, nvars>>

\* variant: a panic of the callback leaves the callback mutex locked
ExecCallback_LeakOnPanic(t) ==
  /\ pc[t] = "e_cb"
  /\ nCb' = [nCb EXCEPT ![t] = @ + 1]
  /\ \E panics \in BOOLEAN :
       IF panics
         THEN Finish(t, Panic) /\ UNCHANGED <<log, cbLock>>
         ELSE /\ log' = [log EXCEPT ![cur[t]] = Append(@, takeRes[t].val)]
              /\ cbLock' = [cbLock EXCEPT ![cur[t]] = Free]
              /\ Finish(t, Ok(Unit))
  /\ UNCHANGED <<op, cur, topic, rmw_message, ret, takeRes, nTake, res, pending,
                 published, handleLock, handleRefs, nodeShare, subAlive, finiCount,
                 nvars>>

\* (*guard)(msg); the temporary guard is dropped, also when the callback
\* unwinds; Ok(())
ExecCallback(t) ==
  /\ pc[t] = "e_cb"
  /\ nCb' = [nCb EXCEPT ![t] = @ + 1]
  /\ cbLock' = [cbLock EXCEPT ![cur[t]] = Free]
  /\ \E panics \in BOOLEAN :
       IF panics
         THEN Finish(t, Panic) /\ UNCHANGED log
         ELSE /\ log' = [log EXCEPT ![cur[t]] = Append(@, takeRes[t].val)]
              /\ Finish(t, Ok(Unit))
  /\ UNCHANGED <<op, cur, topic, rmw_message, ret, takeRes, nTake, res, pending,
                 published, handleLock, handleRefs, nodeShare, subAlive, finiCount,
                 nvars>>

\* the caller has the returned value; the thread is free for its next call
Return(t) ==
  /\ pc[t] = "done"
  /\ pc' = [pc EXCEPT ![t] = "idle"]
  /\ op' = [op EXCEPT ![t] = "none"]
  /\ cur' = [cur EXCEPT ![t] = NoSub]
  /\ topic' = [topic EXCEPT ![t] = NoTopic]
  /\ rmw_message' = [rmw_message EXCEPT ![t] = DefaultRmw]
  /\ ret' = [ret EXCEPT ![t] = RCL_RET_OK]
  /\ takeRes' = [takeRes EXCEPT ![t] = NoResult]
  /\ result' = [result EXCEPT ![t] = NoResult]
  /\ nTake' = [nTake EXCEPT ![t] = 0]
  /\ nCb' = [nCb EXCEPT ![t] = 0]
  /\ UNCHANGED <<svars, nvars>>

\* ------------------------------------------------------- Subscription::new
\* variant: the node is used without waiting for its mutex
NodeLockFree_Always == TRUE

\* the node's Mutex: lock() proceeds only when nobody holds it
NodeLockFree == nodeLock = Free

\* no object and no construction uses slot s yet
SlotFree(s) ==
  /\ res[s] = "Uninitialized"
  /\ handleRefs[s] = 0
  /\ ~\E u \in Threads : cur[u] = s /\ pc[u] \in NewPcs

\* rcl_get_zero_initialized_subscription(); get_type_support();
\* CString::new(topic).unwrap() panics on an interior NUL
NewBegin(t, s, tp) ==
  /\ pc[t] = "idle"
  /\ nodeObj
  /\ SlotFree(s)
  /\ op' = [op EXCEPT ![t] = "new"]
  /\ cur' = [cur EXCEPT ![t] = s]
  /\ topic' = [topic EXCEPT ![t] = tp]
  /\ IF HasNul(tp) THEN Finish(t, Panic) ELSE Goto(t, "n_lock") /\ UNCHANGED result
  /\ UNCHANGED <<rmw_message, ret, takeRes, nTake, nCb, svars, nvars>>

\* let node_handle = &mut *node.handle.lock();
NewLockNode(t) ==
  /\ pc[t] = "n_lock"
  /\ NodeLockFree
  /\ nodeLock' = t
  /\ Goto(t, "n_opts")
  /\ UNCHANGED <<op, cur, topic, rmw_message, ret, takeRes, result, nTake, nCb,
                 svars, nodeRefs, nodeObj, nodeFinalized>>

\* rcl_subscription_get_default_options(); subscription_options.qos = qos.into()
NewOptions(t) ==
  /\ pc[t] = "n_opts"
  /\ Goto(t, "n_init")
  /\ UNCHANGED <<op, cur, topic, rmw_message, ret, takeRes, result, nTake, nCb,
                 svars, nvars>>

\* variant: the error of rcl_subscription_init is dropped (no `?`)
NewInit_IgnoreError(t) ==
  /\ pc[t] = "n_init"
  /\ \E r \in InitReturns :
       /\ ret' = [ret EXCEPT ![t] = r]
       /\ res' = [res EXCEPT ![cur[t]] = IF IsOk(ToResult_ok(r)) THEN "Live" ELSE @]
  /\ Goto(t, "n_wrap")
  /\ UNCHANGED <<op, cur, topic, rmw_message, takeRes, result, nTake, nCb, pending,
                 published, handleLock, handleRefs, nodeShare, subAlive, cbLock, log,
                 finiCount, nvars>>

\* variant: the node guard is scoped to the init call and dropped when it returns
NewInit_ScopedGuard(t) ==
  /\ pc[t] = "n_init"
  /\ nodeLock' = Free
  /\ \E r \in InitReturns :
       /\ ret' = [ret EXCEPT ![t] = r]
       /\ IF IsOk(ToResult_ok(r))
            THEN /\ res' = [res EXCEPT ![cur[t]] = "Live"]
                 /\ Goto(t, "n_wrap")
                 /\ UNCHANGED result
            ELSE /\ Finish(t, ToResult_ok(r))
                 /\ UNCHANGED res
  /\ UNCHANGED <<op, cur, topic, rmw_message, takeRes, nTake, nCb, pending,
                 published, handleLock, handleRefs, nodeShare, subAlive, cbLock, log,
                 finiCount, nodeRefs, nodeObj, nodeFinalized>>

\* rcl_subscription_init(..).ok()?: on an error the function returns it and
\* its locals (the zeroed resource, the node guard) go out of scope
NewInit(t) ==
  /\ pc[t] = "n_init"
  /\ \E r \in InitReturns :
       /\ ret' = [ret EXCEPT ![t] = r]
       /\ IF IsOk(ToResult_ok(r))
            THEN /\ res' = [res EXCEPT ![cur[t]] = "Live"]
                 /\ Goto(t, "n_wrap")
                 /\ UNCHANGED <<result, nodeLock>>
            ELSE /\ Finish(t, ToResult_ok(r))
                 /\ nodeLock' = Free
                 /\ UNCHANGED res
  /\ UNCHANGED <<op, cur, topic, rmw_message, takeRes, nTake, nCb, pending,
                 published, handleLock, handleRefs, nodeShare, subAlive, cbLock, log,
                 finiCount, nodeRefs, nodeObj, nodeFinalized>>

\* variant: the handle keeps a plain reference to the node, no clone of the Arc
NewWrap_NoClone(t) ==
  /\ pc[t] = "n_wrap"
  /\ handleRefs' = [handleRefs EXCEPT ![cur[t]] = 1]
  /\ handleLock' = [handleLock EXCEPT ![cur[t]] = Free]
  /\ Goto(t, "n_ret")
  /\ UNCHANGED <<op, cur, topic, rmw_message, ret, takeRes, result, nTake, nCb,
                 res, pending, published, nodeShare, subAlive, cbLock, log, finiCount,
                 nvars>>

\* Arc::new(SubscriptionHandle { handle: Mutex::new(..), node_handle: node.handle.clone() })
NewWrap(t) ==
  /\ pc[t] = "n_wrap"
  /\ handleRefs' = [handleRefs EXCEPT ![cur[t]] = 1]
  /\ handleLock' = [handleLock EXCEPT ![cur[t]] = Free]
  /\ nodeShare' = [nodeShare EXCEPT ![cur[t]] = TRUE]
  /\ nodeRefs' = nodeRefs + 1
  /\ Goto(t, "n_ret")
  /\ UNCHANGED <<op, cur, topic, rmw_message, ret, takeRes, result, nTake, nCb,
                 res, pending, published, subAlive, cbLock, log, finiCount, nodeLock,
                 nodeObj, nodeFinalized>>

\* Ok(Self { handle, callback: Mutex::new(Box::new(callback)) }); the node
\* guard goes out of scope
NewReturn(t) ==
  /\ pc[t] = "n_ret"
  /\ subAlive' = [subAlive EXCEPT ![cur[t]] = TRUE]
  /\ cbLock' = [cbLock EXCEPT ![cur[t]] = Free]
  /\ nodeLock' = Free
  /\ Finish(t, Ok(Unit))
  /\ UNCHANGED <<op, cur, topic, rmw_message, ret, takeRes, nTake, nCb, res,
                 pending, published, handleLock, handleRefs, nodeShare, log,
                 finiCount, nodeRefs, nodeObj, nodeFinalized>>

\* ------------------------------------- SubscriptionHandle: sharing and lock()
\* variant: every release of the Arc drops the value
LastOwner_Any(n) == TRUE

\* Arc<T>: the value is dropped by the release that leaves no owner
LastOwner(n) == n = 0

\* a holder of the public Arc<SubscriptionHandle> clones it for its own use
LockBegin(t, s) ==
  /\ pc[t] = "idle"
  /\ subAlive[s]
  /\ op' = [op EXCEPT ![t] = "lock"]
  /\ cur' = [cur EXCEPT ![t] = s]
  /\ handleRefs' = [handleRefs EXCEPT ![s] = @ + 1]
  /\ Goto(t, "h_lock")
  /\ UNCHANGED <<topic, rmw_message, ret, takeRes, result, nTake, nCb, res, pending,
                 published, handleLock, nodeShare, subAlive, cbLock, log, finiCount,
                 nvars>>

\* SubscriptionHandle::lock(): self.handle.lock()
LockAcquire(t) ==
  /\ pc[t] = "h_lock"
  /\ HandleLockFree(cur[t])
  /\ handleLock' = [handleLock EXCEPT ![cur[t]] = t]
  /\ Goto(t, "h_held")
  /\ UNCHANGED <<op, cur, topic, rmw_message, ret, takeRes, result, nTake, nCb,
                 res, pending, published, handleRefs, nodeShare, subAlive, cbLock,
                 log, finiCount, nvars>>

\* the MutexGuard returned by lock() is dropped
LockRelease(t) ==
  /\ pc[t] = "h_held"
  /\ handleLock' = [handleLock EXCEPT ![cur[t]] = Free]
  /\ Goto(t, "h_drop")
  /\ UNCHANGED <<op, cur, topic, rmw_message, ret, takeRes, result, nTake, nCb,
                 res, pending, published, handleRefs, nodeShare, subAlive, cbLock,
                 log, finiCount, nvars>>

\* the clone is dropped; the last owner runs Drop for SubscriptionHandle,
\* which starts with self.handle.get_mut()
HandleRelease(t) ==
  /\ pc[t] = "h_drop"
  /\ handleRefs' = [handleRefs EXCEPT ![cur[t]] = @ - 1]
  /\ IF LastOwner(handleRefs[cur[t]] - 1)
       THEN Goto(t, "d_lock") /\ UNCHANGED result
       ELSE Finish(t, Ok(Unit))
  /\ UNCHANGED <<op, cur, topic, rmw_message, ret, takeRes, nTake, nCb, res, pending,
                 published, handleLock, nodeShare, subAlive, cbLock, log, finiCount,
                 nvars>>

\* the owner drops the Subscription (nothing borrows it): its Arc is
\* released and its callback dropped
DropSubscription(t, s) ==
  /\ pc[t] = "idle"
  /\ subAlive[s]
  /\ ~\E u \in Threads : BorrowsSub(u, s)
  /\ op' = [op EXCEPT ![t] = "drop"]
  /\ cur' = [cur EXCEPT ![t] = s]
  /\ subAlive' = [subAlive EXCEPT ![s] = FALSE]
  /\ handleRefs' = [handleRefs EXCEPT ![s] = @ - 1]
  /\ IF LastOwner(handleRefs[s] - 1)
       THEN Goto(t, "d_lock") /\ UNCHANGED result
       ELSE Finish(t, Ok(Unit))
  /\ UNCHANGED <<topic, rmw_message, ret, takeRes, nTake, nCb, res, pending,
                 published, handleLock, nodeShare, cbLock, log, finiCount, nvars>>

\* ----------------------------------------------- Drop for SubscriptionHandle
\* let node_handle = &mut *self.node_handle.lock();
DropLockNode(t) ==
  /\ pc[t] = "d_lock"
  /\ NodeLockFree
  /\ nodeLock' = t
  /\ Goto(t, "d_fini")
  /\ UNCHANGED <<op, cur, topic, rmw_message, ret, takeRes, result, nTake, nCb,
                 svars, nodeRefs, nodeObj, nodeFinalized>>

\* rcl_subscription_fini(handle, node_handle)
DropFini(t) ==
  /\ pc[t] = "d_fini"
  /\ res' = [res EXCEPT ![cur[t]] = "Finalized"]
  /\ finiCount' = [finiCount EXCEPT ![cur[t]] = @ + 1]
  /\ pending' = [pending EXCEPT ![cur[t]] = <<>>]
  /\ Goto(t, "d_end")
  /\ UNCHANGED <<op, cur, topic, rmw_message, ret, takeRes, result, nTake, nCb,
                 published, handleLock, handleRefs, nodeShare, subAlive, cbLock, log,
                 nvars>>

\* variant: the handle treats the node as its own and tears it down with itself
DropEnd_SoleOwner(t) ==
  /\ pc[t] = "d_end"
  /\ nodeLock' = Free
  /\ nodeShare' = [nodeShare EXCEPT ![cur[t]] = FALSE]
  /\ nodeRefs' = IF nodeShare[cur[t]] THEN nodeRefs - 1 ELSE nodeRefs
  /\ nodeFinalized' = TRUE
  /\ Finish(t, Ok(Unit))
  /\ UNCHANGED <<op, cur, topic, rmw_message, ret, takeRes, nTake, nCb, res, pending,
                 published, handleLock, handleRefs, subAlive, cbLock, log, finiCount,
                 nodeObj>>

\* end of drop(): the node guard is released, then the fields are dropped:
\* the handle's share of the node goes, and with the last share the node
DropEnd(t) ==
  /\ pc[t] = "d_end"
  /\ nodeLock' = Free
  /\ nodeShare' = [nodeShare EXCEPT ![cur[t]] = FALSE]
  /\ nodeRefs' = IF nodeShare[cur[t]] THEN nodeRefs - 1 ELSE nodeRefs
  /\ nodeFinalized' = (nodeFinalized \/ (nodeShare[cur[t]] /\ LastOwner(nodeRefs - 1)))
  /\ Finish(t, Ok(Unit))
  /\ UNCHANGED <<op, cur, topic, rmw_message, ret, takeRes, nTake, nCb, res, pending,
                 published, handleLock, handleRefs, subAlive, cbLock, log, finiCount,
                 nodeObj>>

\* ------------------------------------------------------------ environment
\* the application drops its Node (no new() has it borrowed): the Node's own
\* share of the rcl_node_t goes, and with the last share the node
NodeDrop ==
  /\ nodeObj
  /\ ~\E t \in Threads : BorrowsNode(t)
  /\ nodeObj' = FALSE
  /\ nodeRefs' = nodeRefs - 1
  /\ nodeFinalized' = (nodeFinalized \/ LastOwner(nodeRefs - 1))
  /\ UNCHANGED <<tvars, svars, nodeLock>>

\* messages published so far, over all topics
Published == published["A"] + published["B"]

\* a publisher puts the next message of the topic into the subscription's queue
Publish(s) ==
  /\ res[s] = "Live"
  /\ Published < MaxMsgs
  /\ published' = [published EXCEPT ![s] = @ + 1]
  /\ pending' = [pending EXCEPT ![s] = Append(@, Wire(published[s] + 1))]
  /\ UNCHANGED <<tvars, res, handleLock, handleRefs, nodeShare, subAlive, cbLock,
                 log, finiCount, nvars>>

\* ---------------------------------------------------------- specification
Next ==
  \/ \E t \in Threads, s \in Subs, tp \in Topics : NewBegin(t, s, tp)
  \/ \E t \in Threads : NewLockNode(t)
  \/ \E t \in Threads : NewOptions(t)
  \/ \E t \in Threads : NewInit(t)
  \/ \E t \in Threads : NewWrap(t)
  \/ \E t \in Threads : NewReturn(t)
  \/ \E t \in Threads, s \in Subs, o \in {"take", "execute"} : TakeBegin(t, s, o)
  \/ \E t \in Threads : TakeLock(t)
  \/ \E t \in Threads : TakeRcl(t)
  \/ \E t \in Threads : TakeReturn(t)
  \/ \E t \in Threads : ExecMatch(t)
  \/ \E t \in Threads : ExecCbLock(t)
  \/ \E t \in Threads : ExecCallback(t)
  \/ \E t \in Threads, s \in Subs : LockBegin(t, s)
  \/ \E t \in Threads : LockAcquire(t)
  \/ \E t \in Threads : LockRelease(t)
  \/ \E t \in Threads : HandleRelease(t)
  \/ \E t \in Threads, s \in Subs : DropSubscription(t, s)
  \/ \E t \in Threads : DropLockNode(t)
  \/ \E t \in Threads : DropFini(t)
  \/ \E t \in Threads : DropEnd(t)
  \/ \E t \in Threads : Return(t)
  \/ \E s \in Subs : Publish(s)
  \/ NodeDrop

Spec == Init /\ [][Next]_vars

\* ------------------------------------------------------------ properties
\* an execute() / take() / new() call of thread t has returned
Returned(t, o) == pc[t] = "done" /\ op[t] = o

\* thread t takes a step of its own
Steps(t) == pc'[t] # pc[t]

CountIn(q, x) == Cardinality({i \in DOMAIN q : q[i] = x})

\* C1: when the take primitive reports SubscriptionTakeFailed (nothing
\* pending on a Live subscription), execute() returns success, has not
\* called the callback, and its steps after the take leave every callback
\* log as it was; threads repeat such calls without limit.
C1_NoDataIsSuccess ==
  /\ [](\A t \in Threads :
          (Returned(t, "execute") /\ ret[t] = RCL_RET_SUBSCRIPTION_TAKE_FAILED)
            => (IsOk(result[t]) /\ nCb[t] = 0 /\ nTake[t] = 1))
  /\ [][\A t \in Threads :
          (op[t] = "execute" /\ ret[t] = RCL_RET_SUBSCRIPTION_TAKE_FAILED
             /\ pc[t] \in {"t_ret", "e_match"} /\ Steps(t))
            => (log' = log /\ pc'[t] \in {"e_match", "done"})]_vars

\* a later execute() of a subscription that already delivered a message
\* found nothing pending and returned success
C1_Witness ==
  \E t \in Threads :
    /\ Returned(t, "execute")
    /\ ret[t] = RCL_RET_SUBSCRIPTION_TAKE_FAILED
    /\ IsOk(result[t])
    /\ res[cur[t]] = "Live"
    /\ Len(log[cur[t]]) = 1

\* C2: for every error the take primitive reports other than "take
\* failed", execute() returns exactly the error take() returned (the
\* classified code, not remapped), without calling the callback and after
\* a single call of the primitive; take() itself returns "take failed" as
\* the error SubscriptionTakeFailed, and returns that value for no other code.
C2_OtherErrorsPropagate ==
  \A t \in Threads :
    /\ (Returned(t, "execute")
          /\ ret[t] \notin {RCL_RET_OK, RCL_RET_SUBSCRIPTION_TAKE_FAILED})
         => /\ IsErr(takeRes[t])
            /\ IsErr(result[t])
            /\ result[t].val = takeRes[t].val
            /\ result[t].val = Classify(ret[t])
            /\ result[t].val # SubscriptionTakeFailed
            /\ nCb[t] = 0
            /\ nTake[t] = 1
    /\ Returned(t, "take")
         => /\ nTake[t] = 1
            /\ (ret[t] = RCL_RET_SUBSCRIPTION_TAKE_FAILED
                  <=> IsErrOf(result[t], SubscriptionTakeFailed))
            /\ (ret[t] = RCL_RET_OK <=> IsOk(result[t]))

\* an execute() returned the middleware fault it met, and a take() returned
\* the no-data error
C2_Witness ==
  /\ Returned("t1", "execute")
  /\ ret["t1"] = RCL_RET_BAD_ALLOC
  /\ IsErrOf(result["t1"], <<"RclError", "BadAlloc">>)
  /\ Returned("t2", "take")
  /\ IsErrOf(result["t2"], SubscriptionTakeFailed)

\* C3: an execute() whose take succeeds calls the callback exactly once,
\* with the decoded form of the message the primitive removed from the
\* queue, returns success and leaves the resource Live; with exactly one
\* message published the log is empty or holds that message once and the
\* queue is then empty, and a following execute() that finds nothing
\* returns success without calling the callback.
C3_OneMessageOnce ==
  /\ [](\A t \in Threads :
          /\ (Returned(t, "execute") /\ ret[t] = RCL_RET_OK /\ IsOk(result[t]))
               => /\ nTake[t] = 1
                  /\ nCb[t] = 1
                  /\ IsOk(takeRes[t])
                  /\ takeRes[t].val = from_rmw_message(rmw_message[t])
                  /\ rmw_message[t] # DefaultRmw
                  /\ CountIn(log[cur[t]], takeRes[t].val) = 1
                  /\ CountIn(pending[cur[t]], rmw_message[t]) = 0
          /\ (Returned(t, "execute") /\ ret[t] = RCL_RET_SUBSCRIPTION_TAKE_FAILED)
               => (IsOk(result[t]) /\ nCb[t] = 0))
  /\ [](\A s \in Subs :
          published[s] = 1
            => /\ log[s] \in {<<>>, <<from_rmw_message(Wire(1))>>}
               /\ (log[s] # <<>> => pending[s] = <<>>))
  /\ [][\A t \in Threads :
          (op[t] = "execute" /\ pc[t] \in TakePcs \cup ExecPcs /\ Steps(t))
            => (res[cur[t]] = "Live" /\ res' = res)]_vars

\* the one message published was delivered, and a second execute() has
\* returned success with the log still holding just that message
C3_Witness ==
  \E t \in Threads :
    /\ Returned(t, "execute")
    /\ ret[t] = RCL_RET_SUBSCRIPTION_TAKE_FAILED
    /\ IsOk(result[t])
    /\ published[cur[t]] = 1
    /\ log[cur[t]] = <<from_rmw_message(Wire(1))>>
    /\ res[cur[t]] = "Live"

\* threads running the callback of subscription s
InCallback(s) == {t \in Threads : cur[t] = s /\ pc[t] = "e_cb"}

\* C4: at any moment at most one invocation of a subscription's callback
\* is in progress, whatever threads call execute().
C4_OneCallbackAtATime == \A s \in Subs : Cardinality(InCallback(s)) <= 1

\* one thread runs the callback while another, message in hand, waits for it
C4_Witness ==
  \E s \in Subs, t, u \in Threads :
    /\ t # u
    /\ cur[t] = s /\ pc[t] = "e_cb"
    /\ cur[u] = s /\ pc[u] = "e_cblock"

\* execute() calls on s that have performed their take and not yet returned
TakenNotReturned(s) ==
  {t \in Threads : op[t] = "execute" /\ cur[t] = s
                     /\ pc[t] \in {"t_ret", "e_match", "e_cblock", "e_cb"}}

\* execute() calls on s inside their take step (resource guard held)
InTakeStep(s) ==
  {t \in Threads : op[t] = "execute" /\ cur[t] = s /\ pc[t] \in {"t_rcl", "t_ret"}}

\* C5 as stated: once an execute() call has started its take step, no other
\* execute() call on the subscription performs its take step or its callback
\* step before the first has returned; so no two calls have both taken
\* without either having returned.
C5_ExecuteCallsDoNotInterleave ==
  \A s \in Subs : Cardinality(TakenNotReturned(s)) <= 1

\* C5 as amended: the steps of execute() calls on one subscription do not
\* overlap (at most one call is inside its take step, at most one inside
\* its callback step), while a call's take step may fall between another
\* call's take step and callback step.
C5_StepsDoNotOverlap ==
  \A s \in Subs :
    /\ Cardinality(InTakeStep(s)) <= 1
    /\ Cardinality(InCallback(s)) <= 1
    /\ \A t \in InTakeStep(s) : handleLock[s] = t
    /\ \A t \in InCallback(s) : cbLock[s] = t /\ handleLock[s] # t

\* one call holds its message and has not reached the callback while
\* another call is inside its take step
C5_Witness ==
  \E s \in Subs, t, u \in Threads :
    /\ op[t] = "execute" /\ cur[t] = s /\ pc[t] = "e_cblock"
    /\ op[u] = "execute" /\ cur[u] = s /\ pc[u] = "t_rcl"

\* threads touching the raw resource of s: inside take() with the guard,
\* holding the guard of SubscriptionHandle::lock(), or finalizing
Touching(s) ==
  {t \in Threads : cur[t] = s /\ pc[t] \in {"t_rcl", "t_ret", "h_held"} \cup DropPcs}

\* C6: at any moment at most one thread touches a subscription's raw
\* resource, counting threads inside the take primitive, holders of the
\* guard of SubscriptionHandle::lock() and the thread finalizing it.
C6_OneActorPerResource == \A s \in Subs : Cardinality(Touching(s)) <= 1

\* a thread is inside take() while a holder of the handle waits in lock()
C6_Witness ==
  \E s \in Subs, t, u \in Threads :
    /\ cur[t] = s /\ pc[t] = "t_rcl"
    /\ cur[u] = s /\ pc[u] = "h_lock"

\* s was constructed and every owner of its handle is gone, drop included
Destroyed(s) ==
  /\ res[s] # "Uninitialized"
  /\ handleRefs[s] = 0
  /\ ~\E t \in Threads : cur[t] = s /\ pc[t] \in NewPcs \cup DropPcs

\* C7: the finalize primitive is called at most once per resource, exactly
\* once by the time the subscription and every other owner of its handle
\* are gone, and no thread is in take(), execute() or lock() on a resource
\* that has been finalized; sibling constructions do not change this.
C7_FinalizedExactlyOnce ==
  \A s \in Subs :
    /\ finiCount[s] <= 1
    /\ (res[s] = "Finalized") <=> (finiCount[s] = 1)
    /\ Destroyed(s) => finiCount[s] = 1
    /\ res[s] = "Finalized"
         => /\ ~subAlive[s]
            /\ handleRefs[s] = 0
            /\ ~\E t \in Threads :
                  cur[t] = s /\ pc[t] \in TakePcs \cup ExecPcs \cup LockPcs

\* a subscription was finalized while a sibling's construction waited for
\* the node
C7_Witness ==
  \E s, s2 \in Subs, t, u \in Threads :
    /\ s # s2
    /\ cur[t] = s /\ pc[t] = "d_end" /\ finiCount[s] = 1
    /\ cur[u] = s2 /\ pc[u] = "n_lock"

\* C8 as stated: new() with a topic holding a NUL byte returns an error
\* value to its caller.
C8_NulTopicIsError ==
  \A t \in Threads :
    (Returned(t, "new") /\ HasNul(topic[t])) => IsErr(result[t])

\* C9: when rcl_subscription_init fails, new() returns the classified
\* error at once: the resource stays uninitialized, no handle and no
\* Subscription exist, nothing was finalized, the node's reference count
\* is as before and the node's mutex is free; finalize is only ever
\* called on a Live resource.
C9_FailedInitLeavesNothing ==
  /\ [][\A t \in Threads :
          (pc[t] = "n_init" /\ Steps(t) /\ ret'[t] # RCL_RET_OK)
            => /\ pc'[t] = "done"
               /\ IsErr(result'[t])
               /\ result'[t].val = Classify(ret'[t])
               /\ res' = res /\ res[cur[t]] = "Uninitialized"
               /\ handleRefs' = handleRefs /\ handleRefs[cur[t]] = 0
               /\ subAlive' = subAlive /\ ~subAlive[cur[t]]
               /\ nodeShare' = nodeShare /\ ~nodeShare[cur[t]]
               /\ finiCount' = finiCount /\ finiCount[cur[t]] = 0
               /\ nodeRefs' = nodeRefs
               /\ nodeLock = t /\ nodeLock' = Free]_vars
  /\ [][\A s \in Subs : finiCount'[s] # finiCount[s] => res[s] = "Live"]_vars
  /\ [](\A t \in Threads : pc[t] \in {"idle", "done"} => nodeLock # t)

\* a construction failed in init and a later one on the same node is
\* past the node's mutex
C9_Witness ==
  \E t, u \in Threads :
    /\ Returned(t, "new") /\ IsErr(result[t])
    /\ pc[u] = "n_init" /\ nodeLock = u

\* C10 as stated: while a resource is initialized and not finalized, the
\* node is alive and its reference count includes a share held for that
\* subscription.
C10_LiveHoldsNodeShare ==
  \A s \in Subs :
    res[s] = "Live" => (nodeShare[s] /\ nodeRefs >= 1 /\ ~nodeFinalized)

\* shares of the node: the Node object's own and one per handle
NodeOwners == (IF nodeObj THEN 1 ELSE 0) + Cardinality({s \in Subs : nodeShare[s]})

\* C10 as amended: while a resource is initialized and not finalized the
\* node is alive; the handle holds a share of the node from the moment it
\* is built, and between init's return and that moment the node is kept by
\* the Node the running new() has borrowed; the share is released only
\* after finalization.
C10_LiveKeepsNodeAlive ==
  /\ [](\A s \in Subs :
          res[s] = "Live"
            => /\ ~nodeFinalized
               /\ nodeRefs >= 1
               /\ \/ nodeShare[s]
                  \/ nodeObj /\ \E t \in Threads : cur[t] = s /\ pc[t] = "n_wrap")
  /\ [](nodeRefs = NodeOwners /\ (nodeFinalized <=> nodeRefs = 0))
  /\ [][\A s \in Subs : (nodeShare[s] /\ ~nodeShare'[s]) => res[s] = "Finalized"]_vars

\* the application has dropped its Node and a Live subscription alone
\* keeps the node alive
C10_Witness ==
  \E s \in Subs :
    /\ ~nodeObj
    /\ res[s] = "Live" /\ nodeShare[s]
    /\ nodeRefs = 1 /\ ~nodeFinalized

\* thread t takes a step of the destruction of subscription s: the drop of
\* the Subscription, the release of the last clone of its handle, or a step
\* of Drop for SubscriptionHandle
DestroyStep(t, s) ==
  \/ pc[t] = "idle" /\ op'[t] = "drop" /\ cur'[t] = s
  \/ cur[t] = s /\ pc[t] = "h_drop" /\ pc'[t] = "d_lock"
  \/ cur[t] = s /\ pc[t] \in DropPcs /\ Steps(t)

\* everything take() and execute() on s read or write outside the thread
SubView(s) ==
  <<res[s], pending[s], published[s], handleLock[s], handleRefs[s], nodeShare[s],
    subAlive[s], cbLock[s], log[s], finiCount[s]>>

\* C11: no step of the destruction of one subscription changes anything of
\* a sibling on the same node (its lifecycle state, queue, callback log,
\* locks, owners) nor the state of a thread working on the sibling, and
\* the node stays alive for a Live sibling; so take() and execute() on the
\* sibling go on from the state they would have had anyway.
C11_DestroyLeavesSibling ==
  [][\A t \in Threads, s \in Subs :
       DestroyStep(t, s)
         => \A b \in Subs \ {s} :
              /\ SubView(b)' = SubView(b)
              /\ res[b] = "Live" => (~nodeFinalized /\ ~nodeFinalized' /\ nodeRefs' >= 1)
              /\ \A u \in Threads \ {t} :
                   /\ pc'[u] = pc[u] /\ takeRes'[u] = takeRes[u]
                   /\ rmw_message'[u] = rmw_message[u] /\ result'[u] = result[u]]_vars

\* one subscription has been destroyed, the application's Node is gone too,
\* and a thread is delivering a message of the Live sibling
C11_Witness ==
  \E a, b \in Subs, t, u \in Threads :
    /\ a # b /\ t # u
    /\ Returned(t, "drop") /\ cur[t] = a /\ res[a] = "Finalized"
    /\ ~nodeObj
    /\ res[b] = "Live" /\ cur[u] = b /\ pc[u] = "e_cb"

\* C12: a take() that finds nothing pending returns the error
\* SubscriptionTakeFailed, every time; its steps leave the resource, the
\* queue and the callback state as they were, its buffer is still the
\* default message, and no thread outside a call holds a resource lock.
C12_EmptyTakeIsIdempotent ==
  /\ [](\A t \in Threads :
          (Returned(t, "take") /\ ret[t] = RCL_RET_SUBSCRIPTION_TAKE_FAILED)
            => /\ IsErrOf(result[t], SubscriptionTakeFailed)
               /\ rmw_message[t] = DefaultRmw
               /\ nTake[t] = 1)
  /\ [](\A t \in Threads, s \in Subs : pc[t] \in {"idle", "done"} => handleLock[s] # t)
  /\ [][\A t \in Threads :
          (op[t] = "take" /\ pc[t] \in {"t_rcl", "t_ret"} /\ Steps(t)
             /\ ret'[t] = RCL_RET_SUBSCRIPTION_TAKE_FAILED)
            => /\ pc[t] = "t_rcl" => pending[cur[t]] = <<>>
               /\ res[cur[t]] = "Live"
               /\ <<res, pending, published, handleRefs, nodeShare, subAlive, cbLock,
                    log, finiCount>>'
                   = <<res, pending, published, handleRefs, nodeShare, subAlive, cbLock,
                       log, finiCount>>
               /\ pc[t] = "t_ret"
                    => (handleLock[cur[t]] = t /\ handleLock'[cur[t]] = Free)]_vars

\* two take() calls on the same Live subscription have both returned the
\* no-data error
C12_Witness ==
  \E s \in Subs :
    /\ res[s] = "Live"
    /\ \A t \in Threads :
         /\ Returned(t, "take") /\ cur[t] = s
         /\ IsErrOf(result[t], SubscriptionTakeFailed)

\* C13: when the callback panics inside execute(), the step that unwinds
\* out of the call frees the callback mutex: the call has ended with the
\* panic, the mutex is free and the thread holds no lock of any kind, so a
\* later execute() can lock the callback and the owner can drop the
\* subscription.
C13_PanicReleasesCallback ==
  /\ [][\A t \in Threads :
          (pc[t] = "e_cb" /\ Steps(t) /\ result'[t] = Panic)
            => /\ cbLock[cur[t]] = t
               /\ cbLock'[cur[t]] = Free
               /\ pc'[t] = "done"
               /\ subAlive'[cur[t]]]_vars
  /\ [](\A t \in Threads :
          (Returned(t, "execute") /\ result[t] = Panic)
            => /\ nCb[t] = 1
               /\ \A s \in Subs : cbLock[s] # t /\ handleLock[s] # t
               /\ nodeLock # t)

\* after a call ended in a panic of the callback, another call holds the
\* callback mutex of the same subscription
C13_Witness ==
  \E s \in Subs, t, u \in Threads :
    /\ Returned(t, "execute") /\ cur[t] = s /\ result[t] = Panic
    /\ cur[u] = s /\ pc[u] = "e_cb" /\ cbLock[s] = u

\* threads about to call, or inside, rcl_subscription_init / rcl_subscription_fini
InInitOrFini == {t \in Threads : pc[t] \in {"n_init", "d_fini"}}

\* C14: rcl_subscription_init and rcl_subscription_fini are only called
\* by the thread that holds the node's mutex, so at most one such call is
\* in progress on the node, over all its subscriptions.
C14_InitFiniUnderNodeLock ==
  /\ [](\A t \in InInitOrFini : nodeLock = t)
  /\ [](Cardinality(InInitOrFini) <= 1)
  /\ [][(res' # res \/ finiCount' # finiCount)
          => \E t \in InInitOrFini : Steps(t) /\ nodeLock = t]_vars

\* a subscription is about to be finalized under the node's mutex while
\* the construction of a sibling waits for that mutex
C14_Witness ==
  \E t, u \in Threads :
    /\ pc[t] = "d_fini" /\ nodeLock = t
    /\ pc[u] = "n_lock" /\ cur[u] # cur[t]

\* C15: a resource only moves Uninitialized -> Live, by a successful
\* rcl_subscription_init, and Live -> Finalized, by rcl_subscription_fini;
\* every step of take() and execute() finds it Live and leaves it Live,
\* whatever the call returns; a Finalized resource never changes again.
C15_Lifecycle ==
  /\ [][\A s \in Subs :
          res'[s] # res[s]
            => \/ /\ res[s] = "Uninitialized" /\ res'[s] = "Live"
                  /\ \E t \in Threads :
                       cur[t] = s /\ pc[t] = "n_init" /\ ret'[t] = RCL_RET_OK
               \/ /\ res[s] = "Live" /\ res'[s] = "Finalized"
                  /\ \E t \in Threads : cur[t] = s /\ pc[t] = "d_fini" /\ Steps(t)]_vars
  /\ [][\A s \in Subs : finiCount'[s] # finiCount[s] => res[s] = "Live"]_vars
  /\ [][\A t \in Threads :
          (pc[t] \in TakePcs \cup ExecPcs /\ Steps(t))
            => (res[cur[t]] = "Live" /\ res'[cur[t]] = "Live")]_vars
  /\ [](\A t \in Threads :
          (pc[t] \in NewPcs \cup {"done"} /\ op[t] = "new" /\ res[cur[t]] = "Finalized")
            => pc[t] = "done")

\* one resource is Finalized, its sibling is Live after an execute() that
\* returned a middleware error
C15_Witness ==
  \E a, b \in Subs, t \in Threads :
    /\ res[a] = "Finalized" /\ res[b] = "Live"
    /\ Returned(t, "execute") /\ cur[t] = b /\ IsErr(result[t])

\* C16 as stated: a thread constructing a subscription holds the node's
\* mutex only around the init call, not while it builds the options, wraps
\* the handle or boxes the callback.
C16_NodeLockOnlyAroundInit ==
  \A t \in Threads : (op[t] = "new" /\ nodeLock = t) => pc[t] = "n_init"

\* C16 as amended: new() acquires the node's mutex before it builds the
\* subscription options and holds it until it returns: the options, the
\* init call, the wrapping of the handle and the boxing of the callback
\* all run under it, and it is released by the return, with the error of
\* init or with the Subscription.
C16_NodeLockHeldToReturn ==
  /\ [](\A t \in Threads :
          op[t] = "new"
            => (nodeLock = t <=> pc[t] \in {"n_opts", "n_init", "n_wrap", "n_ret"}))
  /\ [][\A t \in Threads :
          (op[t] = "new" /\ nodeLock = t /\ nodeLock' # t)
            => /\ pc[t] \in {"n_init", "n_ret"}
               /\ pc'[t] = "done"
               /\ nodeLock' = Free]_vars

\* the handle has been wrapped and the constructing thread still holds the
\* node's mutex while another thread waits for it
C16_Witness ==
  \E t, u \in Threads :
    /\ pc[t] = "n_ret" /\ nodeLock = t /\ handleRefs[cur[t]] = 1
    /\ pc[u] \in {"n_lock", "d_lock"}

\* messages are numbered in publication order, which rcl_take follows, so
\* the take order of two messages is the order of their numbers
Taken(s) == published[s] - Len(pending[s])

\* execute() calls on s that hold a taken message not yet given to the callback
Holding(s) == {t \in TakenNotReturned(s) : ret[t] = RCL_RET_OK}

\* C17 as stated: the callback gets the messages of a subscription in the
\* order in which they were taken.
C17_CallbackInTakeOrder ==
  \A s \in Subs : \A i, j \in DOMAIN log[s] : i < j => log[s][i][2] < log[s][j][2]

\* C17 as amended: under concurrent execute() calls the messages are taken
\* in publication order and every taken message reaches the callback at
\* most once, from the call that took it and under the callback lock; the
\* callback order is the order in which the calls get the callback lock,
\* so a message taken later can be delivered first.
C17_TakenOnceDeliveredOnce ==
  /\ [][\A t \in Threads :
          (pc[t] = "t_rcl" /\ Steps(t) /\ ret'[t] = RCL_RET_OK)
            => /\ rmw_message'[t] = Wire(Taken(cur[t]) + 1)
               /\ Taken(cur[t])' = Taken(cur[t]) + 1]_vars
  /\ [][\A t \in Threads :
          (pc[t] = "e_cb" /\ Steps(t))
            => /\ cbLock[cur[t]] = t
               /\ log'[cur[t]] \in {log[cur[t]],
                                    Append(log[cur[t]], from_rmw_message(rmw_message[t]))}
               /\ \A s \in Subs \ {cur[t]} : log'[s] = log[s]]_vars
  /\ [][\A s \in Subs :
          log'[s] # log[s] => \E t \in Threads : cur[t] = s /\ pc[t] = "e_cb" /\ Steps(t)]_vars
  /\ [](\A s \in Subs :
          /\ \A i \in DOMAIN log[s] :
               /\ \E k \in 1..Taken(s) : log[s][i] = from_rmw_message(Wire(k))
               /\ CountIn(log[s], log[s][i]) = 1
          /\ \A t \in Holding(s) :
               /\ CountIn(log[s], from_rmw_message(rmw_message[t])) = 0
               /\ \A u \in Holding(s) \ {t} : rmw_message[u] # rmw_message[t])

\* the second message taken was delivered before the first
C17_Witness ==
  \E s \in Subs : log[s] = <<from_rmw_message(Wire(2)), from_rmw_message(Wire(1))>>

\* ------------------------------------------------------------- progress
\* thread t is inside an operation
Active(t) == pc[t] \notin {"idle", "done"}

\* the next step of the operation thread t is in
Step(t) ==
  \/ NewLockNode(t) \/ NewOptions(t) \/ NewInit(t) \/ NewWrap(t) \/ NewReturn(t)
  \/ TakeLock(t) \/ TakeRcl(t) \/ TakeReturn(t)
  \/ ExecMatch(t) \/ ExecCbLock(t) \/ ExecCallback(t)
  \/ LockAcquire(t) \/ LockRelease(t) \/ HandleRelease(t)
  \/ DropLockNode(t) \/ DropFini(t) \/ DropEnd(t)

\* one representative of each way a call can end: a valid and an invalid
\* topic; success, no data, and one fault of the C library
ProgressTopics == {<<47, 116>>, <<0>>}
ProgressReturns == {RCL_RET_OK, RCL_RET_BAD_ALLOC, RCL_RET_SUBSCRIPTION_TAKE_FAILED}

\* messages published in the runs checked for progress
ProgressMsgs == 1

Narrow ==
  \A t \in Threads :
    /\ topic[t] \in ProgressTopics \cup {NoTopic}
    /\ ret[t] \in ProgressReturns
    /\ Published <= ProgressMsgs

\* the program with its inputs and the C library's answers drawn from the
\* representatives
ProgressNext == Next /\ Narrow'

\* a running thread goes on with its operation whenever it can: code that
\* is not waiting for a mutex runs to its next step
ProgressSpec ==
  Init /\ [][ProgressNext]_vars /\ \A t \in Threads : WF_vars(Step(t) /\ Narrow')

\* locks thread t holds
LocksHeld(t) ==
  (IF nodeLock = t THEN 1 ELSE 0)
  + Cardinality({s \in Subs : handleLock[s] = t})
  + Cardinality({s \in Subs : cbLock[s] = t})

\* the mutex thread t is waiting for is held by thread u
WaitsFor(t, u) ==
  \/ pc[t] \in {"n_lock", "d_lock"} /\ nodeLock = u
  \/ pc[t] \in {"t_lock", "h_lock"} /\ handleLock[cur[t]] = u
  \/ pc[t] = "e_cblock" /\ cbLock[cur[t]] = u

\* some operation is in progress and none of them can take its next step
Deadlocked ==
  /\ \E t \in Threads : Active(t)
  /\ \A t \in Threads : Active(t) => ~ ENABLED (Step(t) /\ Narrow')

\* every started operation returns
EveryOperationReturns == \A t \in Threads : Active(t) ~> (pc[t] = "done")

\* a waiter gets a mutex that is released again and again: parking_lot's
\* eventual fairness
LockFair == \A t \in Threads : SF_vars(Step(t) /\ Narrow')

PastTake(t) == pc[t] \in ExecPcs

\* C19: the resource lock is never held by a call of execute() that is past
\* its take(): not while it matches the result, waits for the callback lock
\* or runs the callback. So a thread waiting for the resource lock never
\* waits for a thread that is in a callback, and take() or lock() on the same
\* subscription go on while the callback runs. A call whose take gave no
\* message (no data, or an error) returns from the match and never reaches
\* the callback lock.
C19_CallbackOutsideResourceLock ==
  /\ [](\A t \in Threads : PastTake(t) => \A s \in Subs : handleLock[s] # t)
  /\ [](\A t, u \in Threads :
          pc[u] \in {"t_lock", "h_lock"} /\ WaitsFor(u, t) => ~ PastTake(t))
  /\ [](\A t, u \in Threads :
          /\ pc[t] = "e_cb" /\ cur[u] = cur[t] /\ pc[u] \in {"t_lock", "h_lock"}
          /\ handleLock[cur[t]] = Free
          => ENABLED (TakeLock(u) \/ LockAcquire(u)))
  /\ [](\A t \in Threads : pc[t] \in {"e_cblock", "e_cb"} => IsOk(takeRes[t]))
  /\ [][\A t \in Threads :
          pc[t] = "e_match" /\ ~ IsOk(takeRes[t]) /\ Steps(t)
          => pc'[t] = "done" /\ cbLock' = cbLock]_vars

\* a callback of subscription s is running while another thread holds the
\* resource lock of s inside take() or through SubscriptionHandle::lock()
C19_Witness ==
  \E t, u \in Threads :
    /\ t # u
    /\ pc[t] = "e_cb"
    /\ cur[u] = cur[t]
    /\ pc[u] \in {"t_rcl", "h_held"}
    /\ handleLock[cur[t]] = u
    /\ cbLock[cur[t]] = t

====
